---- MODULE Spec2Model ----
(***************************************************************************)
(* Model of the chess-coach backend (src/backend/app): the single          *)
(* in-memory SESSION, the REST handlers new_game / get_state / undo /      *)
(* make_move of main.py, the mental-signal tracker of analysis.py and the  *)
(* report parser and agent entry point of agent.py.                        *)
(*                                                                         *)
(* python-chess (chess.Board) is a third-party collaborator.  It is        *)
(* replaced by a small counting game that has every feature the handlers   *)
(* depend on: a move stack, a side to move derived from the stack parity,  *)
(* position-dependent legality, terminal positions with a result, and a    *)
(* parse of UCI strings that rejects illegal moves.                        *)
(***************************************************************************)
EXTENDS Integers, Sequences, FiniteSets, TLC

\* ---------------------------------------------------------------- bounds
\* The game is over once the moves played add up to Target.
Target == 3
\* Guards cap the two session values that the code lets grow without bound.
MaxUndo == 2
MaxThink == 2

\* ------------------------------------------------------------- optionals
\* Python's Optional[T]: None is the empty sequence, a value is <<value>>.
None == <<>>
Some(x) == <<x>>

\* ------------------------------------------------- chess.Board (abstract)
\* A Move is a step of 1 or 2; 0 is the null move (chess.Move.null()).
NullMove == 0
Moves == {1, 2}

RECURSIVE Sum(_)
Sum(b) == IF b = <<>> THEN 0 ELSE b[1] + Sum(Tail(b))

\* chess.Board(): the initial position has an empty move stack.
NewBoard == <<>>

\* board.turn: white moves on even stack length.
Turn(b) == IF Len(b) % 2 = 0 THEN "white" ELSE "black"

\* board.is_game_over()
IsGameOver(b) == Sum(b) >= Target

\* board.legal_moves
LegalMoves(b) == IF IsGameOver(b) THEN {} ELSE {m \in Moves : Sum(b) + m <= Target}

\* board.result(): the side that made the last move has won.
Result(b) == IF Turn(b) = "black" THEN "1-0" ELSE "0-1"

\* move.uci()
Uci(m) == CASE m = 1 -> "s1" [] m = 2 -> "s2" [] OTHER -> "0000"

\* Move.from_uci followed by the castling normalisation of board.parse_uci:
\* two spellings name the step of 2 (as e1g1 and e1h1 both name castling).
FromUci(s) ==
    CASE s = "s1" -> Some(1)
      [] s = "s2" -> Some(2)
      [] s = "s2alt" -> Some(2)
      [] s = "0000" -> Some(NullMove)
      [] OTHER -> None

\* board.parse_uci(uci): None stands for the ValueError it raises, on a
\* malformed string and on a move that is not legal in the position; the
\* null move is returned without a legality check.
ParseUci(b, s) ==
    LET m == FromUci(s) IN
    IF m = None THEN None
    ELSE IF m[1] = NullMove THEN m
    ELSE IF m[1] \in LegalMoves(b) THEN m
    ELSE None

\* board.push(move): no legality check.
Push(b, m) == Append(b, m)

\* board.pop() / list.pop()
Pop(s) == SubSeq(s, 1, Len(s) - 1)

\* board.fen(): the position, the side to move and the move counters.
Fen(b) == [count |-> Sum(b), turn |-> Turn(b), ply |-> Len(b)]

\* --------------------------------------------------------- str conversions
\* str.strip() on the strings of the model.
Strip(s) ==
    CASE s = " s1 " -> "s1"
      [] s = " Blunder " -> "Blunder"
      [] s = " Good " -> "Good"
      [] s = " " -> ""
      [] OTHER -> s

\* str.lower() on the request strings of the model.
Lower(s) ==
    CASE s = "White" -> "white"
      [] s = "BLACK" -> "black"
      [] s = "Easy" -> "easy"
      [] OTHER -> s

\* ------------------------------------------------ analysis.py: classifier
\* MoveQuality(label, swing_cp)
MoveQuality(label, swing_cp) == [label |-> label, swing_cp |-> swing_cp]

\* (A variant whose first band excludes a swing of exactly -30.)
classify_move_quality_from_swing_StrictGood(eval_before_cp, eval_after_cp) ==
    IF eval_before_cp = None \/ eval_after_cp = None THEN MoveQuality("Good", None)
    ELSE LET swing == eval_after_cp[1] - eval_before_cp[1]
         IN  IF swing > -30 THEN MoveQuality("Good", Some(swing))
             ELSE IF -90 <= swing /\ swing <= -31 THEN MoveQuality("Inaccuracy", Some(swing))
             ELSE IF -200 <= swing /\ swing <= -91 THEN MoveQuality("Mistake", Some(swing))
             ELSE MoveQuality("Blunder", Some(swing))

\* classify_move_quality_from_swing(eval_before_cp, eval_after_cp); Python
\* integers do not overflow.
classify_move_quality_from_swing(eval_before_cp, eval_after_cp) ==
    IF eval_before_cp = None \/ eval_after_cp = None THEN MoveQuality("Good", None)
    ELSE LET swing == eval_after_cp[1] - eval_before_cp[1]
         IN  IF swing >= -30 THEN MoveQuality("Good", Some(swing))
             ELSE IF -90 <= swing /\ swing <= -31 THEN MoveQuality("Inaccuracy", Some(swing))
             ELSE IF -200 <= swing /\ swing <= -91 THEN MoveQuality("Mistake", Some(swing))
             ELSE MoveQuality("Blunder", Some(swing))

\* agent.py, classify_last_move: the label alone.
classify_last_move(eval_before_cp, eval_after_cp) ==
    classify_move_quality_from_swing(eval_before_cp, eval_after_cp).label

\* --------------------------------------------------- analysis.py: tracker
RapidThresholdMs == 1500

\* (A variant that leaves the streak alone on a good move.)
update_mental_signals_after_move_NoReset(move_quality, think_time_ms, last_move_was_blunder, current_blunder_streak) ==
    LET rapid == /\ last_move_was_blunder
                 /\ think_time_ms # None
                 /\ think_time_ms[1] <= RapidThresholdMs
    IN  IF move_quality = None THEN <<current_blunder_streak, rapid>>
        ELSE IF Strip(move_quality[1]) \in {"Blunder", "Mistake"}
             THEN <<current_blunder_streak + 1, rapid>>
        ELSE <<current_blunder_streak, rapid>>

\* (A variant whose threshold is exclusive.)
update_mental_signals_after_move_Below(move_quality, think_time_ms, last_move_was_blunder, current_blunder_streak) ==
    LET rapid == /\ last_move_was_blunder
                 /\ think_time_ms # None
                 /\ think_time_ms[1] < RapidThresholdMs
    IN  IF move_quality = None THEN <<current_blunder_streak, rapid>>
        ELSE IF Strip(move_quality[1]) \in {"Blunder", "Mistake"}
             THEN <<current_blunder_streak + 1, rapid>>
        ELSE IF Strip(move_quality[1]) \in {"Good", "Best", "Inaccuracy"}
             THEN <<0, rapid>>
        ELSE <<current_blunder_streak, rapid>>

\* (A variant that counts an absent label as a blunder.)
update_mental_signals_after_move_AbsentCounts(move_quality, think_time_ms, last_move_was_blunder, current_blunder_streak) ==
    LET rapid == /\ last_move_was_blunder
                 /\ think_time_ms # None
                 /\ think_time_ms[1] <= RapidThresholdMs
    IN  IF move_quality = None THEN <<current_blunder_streak + 1, rapid>>
        ELSE IF Strip(move_quality[1]) \in {"Blunder", "Mistake"}
             THEN <<current_blunder_streak + 1, rapid>>
        ELSE IF Strip(move_quality[1]) \in {"Good", "Best", "Inaccuracy"}
             THEN <<0, rapid>>
        ELSE <<current_blunder_streak, rapid>>

\* update_mental_signals_after_move: <<new_blunder_streak, rapid_after_blunder>>;
\* the label is compared after  q = move_quality.strip().
update_mental_signals_after_move(move_quality, think_time_ms, last_move_was_blunder, current_blunder_streak) ==
    LET rapid == /\ last_move_was_blunder
                 /\ think_time_ms # None
                 /\ think_time_ms[1] <= RapidThresholdMs
    IN  IF move_quality = None THEN <<current_blunder_streak, rapid>>
        ELSE IF Strip(move_quality[1]) \in {"Blunder", "Mistake"}
             THEN <<current_blunder_streak + 1, rapid>>
        ELSE IF Strip(move_quality[1]) \in {"Good", "Best", "Inaccuracy"}
             THEN <<0, rapid>>
        ELSE <<current_blunder_streak, rapid>>

\* ------------------------------------------------- agent.py: report text
\* A text is a sequence of lines; a line is its kind and its content:
\*   hdr   "[v]"  a section header with an upper-case tag
\*   lbl   "v"    a sub-label line such as "Label:"
\*   bul   "- v"  a bulleted line (v = "" is a bare marker)
\*   num   "n) v" a numbered line
\*   txt   "v"    any other non-empty line
\*   blank        an empty or whitespace-only line
L(k, v) == [k |-> k, v |-> v]
Blank == L("blank", "")

IsBlankLine(l) == l.k = "blank"

\* What a pattern looks for in a line: a section header "[TAG]" (any, or the
\* one named), the sub-label named, a line that is not blank, any line, none.
Hdr(tag) == [p |-> "hdr", v |-> tag]
AnyHdr == [p |-> "anyhdr", v |-> ""]
Lbl(name) == [p |-> "lbl", v |-> name]
NonBlank == [p |-> "nonblank", v |-> ""]
AnyLine == [p |-> "any", v |-> ""]
NoLine == [p |-> "none", v |-> ""]
Matches(l, pat) ==
    CASE pat.p = "hdr" -> l.k = "hdr" /\ l.v = pat.v
      [] pat.p = "anyhdr" -> l.k = "hdr"
      [] pat.p = "lbl" -> l.k = "lbl" /\ l.v = pat.v
      [] pat.p = "nonblank" -> ~IsBlankLine(l)
      [] pat.p = "any" -> TRUE
      [] OTHER -> FALSE

\* re.search: index of the first line at or after `from` that matches, else 0.
FirstFrom(ls, from, pat) ==
    LET S == {i \in from..Len(ls) : Matches(ls[i], pat)}
    IN  IF S = {} THEN 0 ELSE CHOOSE i \in S : \A j \in S : i <= j

\* A line that  strip("- ")  consumes whole: blank, or a bare bullet marker.
IsDashOnly(l) == l.k = "blank" \/ (l.k = "bul" /\ l.v = "")

Strippable(l, dash) == IF dash THEN IsDashOnly(l) ELSE IsBlankLine(l)

RECURSIVE TrimLeft(_, _)
TrimLeft(ls, dash) ==
    IF ls # <<>> /\ Strippable(ls[1], dash) THEN TrimLeft(Tail(ls), dash) ELSE ls
RECURSIVE TrimRight(_, _)
TrimRight(ls, dash) ==
    IF ls # <<>> /\ Strippable(ls[Len(ls)], dash) THEN TrimRight(Pop(ls), dash) ELSE ls

\* str.strip() of a block: leading and trailing blank lines go.
StripBlock(ls) == TrimRight(TrimLeft(ls, FALSE), FALSE)

\* The span a pattern  <start>\s*(.*?)(?=<stop>|\Z)  captures, given the index
\* i of the line that holds <start>: \s* runs over the blank lines after it,
\* the capture begins at the first non-blank line s and ends before the first
\* stop line.  A stop written "\n<stop>" must begin a line after s (the
\* newline before line s is already consumed): strict = TRUE.
SpanAfter(ls, i, stop, strict) ==
    LET s == FirstFrom(ls, i + 1, NonBlank)
        j == IF s = 0 THEN 0 ELSE FirstFrom(ls, IF strict THEN s + 1 ELSE s, stop)
    IN  IF s = 0 THEN <<>>
        ELSE IF j = 0 THEN SubSeq(ls, s, Len(ls))
        ELSE SubSeq(ls, s, j - 1)

\* _section(text, tag)
_section(text, tag) ==
    LET i == FirstFrom(text, 1, Hdr(tag))
    IN  IF i = 0 THEN <<>> ELSE StripBlock(SpanAfter(text, i, AnyHdr, TRUE))

RECURSIVE PickKind(_, _)
PickKind(ls, kind) ==
    IF ls = <<>> THEN <<>>
    ELSE IF ls[1].k = kind /\ ls[1].v # ""
         THEN <<ls[1].v>> \o PickKind(Tail(ls), kind)
         ELSE PickKind(Tail(ls), kind)

\* _bullets(block): the non-empty bodies of the lines that start with "- ".
_bullets(block) == PickKind(block, "bul")

\* _numbered(block): the non-empty bodies of the lines that start with "n) ".
_numbered(block) == PickKind(block, "num")

\* The characters of a line, without the bullet marker of a bulleted line.
Body(l) ==
    CASE l.k = "hdr" -> "[" \o l.v \o "]"
      [] l.k = "num" -> "1) " \o l.v
      [] OTHER -> l.v
Render(l) == IF l.k = "bul" THEN "- " \o Body(l) ELSE Body(l)

RECURSIVE Join(_, _)
Join(ss, sep) ==
    IF ss = <<>> THEN ""
    ELSE IF Len(ss) = 1 THEN ss[1]
    ELSE ss[1] \o sep \o Join(Tail(ss), sep)

RenderAll(ls) == [i \in 1..Len(ls) |-> Render(ls[i])]

\* cap.strip().replace("\n", " ").strip("- ").strip(): with the line breaks
\* turned into spaces, strip("- ") eats every leading and trailing bare
\* marker and the marker of the first remaining line.
StripJoined(cap) ==
    LET c == TrimRight(TrimLeft(cap, TRUE), TRUE)
    IN  IF c = <<>> THEN ""
        ELSE Join(<<Body(c[1])>> \o RenderAll(Tail(c)), " ")

\* cap.strip().strip("- ").strip(): the line breaks stay, so strip("- ")
\* stops at the ends of the first and the last line: it removes the marker
\* of a first bulleted line and a bare marker that is the last line.
Unmark(l) ==
    IF l.k # "bul" THEN l ELSE IF l.v = "" THEN Blank ELSE L("txt", l.v)
StripLines(cap) ==
    LET a == StripBlock(cap)
        b == IF a = <<>> THEN a ELSE <<Unmark(a[1])>> \o Tail(a)
        c == IF b # <<>> /\ IsDashOnly(b[Len(b)]) THEN Append(Pop(b), Blank) ELSE b
    IN  Join(RenderAll(StripBlock(c)), "\n")

\* The sub-labels the patterns of parse_agent_report look for.
ObsLabel == "Observed Signals:"
InfLabel == "Inference (non-medical, uncertain):"
TipLabel == "10s Micro-Reset Tip:"
EvalLabel == "Eval:"
WhyLabel == "Why:"
ThreatsLabel == "Immediate Threats:"
PlansWhiteLabel == "Plans (White):"
PlansBlackLabel == "Plans (Black):"
LabelLabel == "Label:"
ReasonLabel == "Reason:"
ActionableLabel == "Actionable:"
ShortPVLabel == "Short PV (4-8 ply max):"
ExplainLabel == "Explain:"
ChecklistLabel == "Next-turn checklist:"

DefaultInference == "Uncertain; monitor focus and time usage."
DefaultTip == "Take one deep breath, relax shoulders, and pick one plan for the next move."
DefaultEval == "unknown"
AllowedLabels == {"Best", "Good", "Inaccuracy", "Mistake", "Blunder"}
MaxBullets == 3

FirstLbl(ls, name) == FirstFrom(ls, 1, Lbl(name))
\* <start>\s*(.*?)(?=\n<stop>|\Z)
SpanToLbl(ls, i, stop) == SpanAfter(ls, i, Lbl(stop), TRUE)
\* <start>\s*(.*) with re.S: to the end of the section.
SpanToEnd(ls, i) == SpanAfter(ls, i, NoLine, FALSE)
\* <start>\s*(.*?)(?=\n|\Z) and <start>\s*(.*) without re.S: one line.
SpanOneLine(ls, i) == SpanAfter(ls, i, AnyLine, TRUE)

\* parse_agent_report, "--- Mental ---"
ParseMental(mental) ==
    LET io == FirstLbl(mental, ObsLabel)
        after == IF io = 0 THEN <<>> ELSE SubSeq(mental, io + 1, Len(mental))
        ii == FirstLbl(after, InfLabel)
        part0 == IF ii = 0 THEN after ELSE SubSeq(after, 1, ii - 1)
        mi == FirstLbl(mental, InfLabel)
        inference == IF mi = 0 THEN ""
                     ELSE StripJoined(StripBlock(SpanAfter(mental, mi, Lbl(TipLabel), FALSE)))
        mt == FirstLbl(mental, TipLabel)
        tip == IF mt = 0 THEN "" ELSE StripLines(SpanToEnd(mental, mt))
    IN  [observed_signals |-> IF mental = <<>> THEN <<>> ELSE _bullets(part0),
         inference |-> IF mental = <<>> \/ inference = "" THEN DefaultInference
                       ELSE inference,
         micro_reset_tip |-> IF mental = <<>> \/ tip = "" THEN DefaultTip ELSE tip]

\* parse_agent_report, "--- Position ---"
ParsePosition(pos) ==
    LET ie == FirstLbl(pos, EvalLabel)
        eval_line == IF ie = 0 THEN "" ELSE StripLines(SpanToLbl(pos, ie, WhyLabel))
        iw == FirstLbl(pos, WhyLabel)
        it == FirstLbl(pos, ThreatsLabel)
        ipw == FirstLbl(pos, PlansWhiteLabel)
        ipb == FirstLbl(pos, PlansBlackLabel)
    IN  [eval |-> IF eval_line = "" THEN DefaultEval ELSE eval_line,
         why |-> IF iw = 0 THEN <<>> ELSE _bullets(SpanToLbl(pos, iw, ThreatsLabel)),
         threats |-> IF it = 0 THEN <<>>
                     ELSE _bullets(SpanToLbl(pos, it, PlansWhiteLabel)),
         plans |-> [white |-> IF ipw = 0 THEN <<>>
                              ELSE _bullets(SpanToLbl(pos, ipw, PlansBlackLabel)),
                    black |-> IF ipb = 0 THEN <<>>
                              ELSE _bullets(SpanOneLine(pos, ipb))]]

\* (A variant that returns the label as written.)
ParseLabel_AsWritten(quality) ==
    LET il == FirstLbl(quality, LabelLabel)
    IN  IF il = 0 THEN "Good" ELSE StripLines(SpanOneLine(quality, il))

\* parse_agent_report, "--- Move Quality ---"
ParseLabel(quality) ==
    LET il == FirstLbl(quality, LabelLabel)
        label == IF il = 0 THEN "Good" ELSE StripLines(SpanOneLine(quality, il))
    IN  IF label \in AllowedLabels THEN label ELSE "Good"

\* (A variant that returns every bullet.)
ParseCoaching_Uncapped(coaching, label) ==
    LET ia == FirstLbl(coaching, ActionableLabel)
        act == IF ia = 0 THEN <<>> ELSE SpanToLbl(coaching, ia, ShortPVLabel)
        ip == FirstLbl(coaching, ShortPVLabel)
    IN  [move_quality |-> label,
         bullets |-> IF _numbered(act) # <<>> THEN _numbered(act) ELSE _bullets(act),
         pv |-> IF ip = 0 THEN None ELSE Some(StripLines(SpanToEnd(coaching, ip)))]

\* parse_agent_report, "--- Coaching ---"
ParseCoaching(coaching, label) ==
    LET ia == FirstLbl(coaching, ActionableLabel)
        act == IF ia = 0 THEN <<>> ELSE SpanToLbl(coaching, ia, ShortPVLabel)
        bullets == IF _numbered(act) # <<>> THEN _numbered(act) ELSE _bullets(act)
        ip == FirstLbl(coaching, ShortPVLabel)
    IN  [move_quality |-> label,
         bullets |-> SubSeq(bullets, 1, IF Len(bullets) < MaxBullets THEN Len(bullets)
                                          ELSE MaxBullets),
         pv |-> IF ip = 0 THEN None ELSE Some(StripLines(SpanToEnd(coaching, ip)))]

\* parse_agent_report(text)
parse_agent_report(text) ==
    [coach |-> ParseCoaching(_section(text, "COACHING"),
                             ParseLabel(_section(text, "MOVE_QUALITY"))),
     mental |-> ParseMental(_section(text, "MENTAL_STATE_CHECK")),
     position |-> ParsePosition(_section(text, "POSITION_SNAPSHOT")),
     raw_text |-> text]

\* The canned text run_coach_agent parses when OPENAI_API_KEY is not set.
NoKeyText ==
    << L("hdr", "MENTAL_STATE_CHECK"),
       L("lbl", ObsLabel), L("bul", "OPENAI_API_KEY missing"),
       L("lbl", InfLabel), L("bul", "Coaching disabled until key is set"),
       L("lbl", TipLabel), L("bul", "Set OPENAI_API_KEY and restart backend"),
       Blank,
       L("hdr", "POSITION_SNAPSHOT"),
       L("lbl", EvalLabel), L("bul", "unknown"),
       L("lbl", WhyLabel), L("bul", "engine unavailable"),
       L("lbl", ThreatsLabel), L("bul", "unknown"),
       L("lbl", PlansWhiteLabel), L("bul", "develop pieces"),
       L("lbl", PlansBlackLabel), L("bul", "develop pieces"),
       Blank,
       L("hdr", "MOVE_QUALITY"),
       L("lbl", LabelLabel), L("bul", "Good"),
       L("lbl", ReasonLabel), L("bul", "no engine eval available"),
       Blank,
       L("hdr", "COACHING"),
       L("lbl", ActionableLabel), L("bul", "1) Set OPENAI_API_KEY"),
       L("lbl", ShortPVLabel), L("bul", ""),
       Blank,
       L("hdr", "BOT_MOVE"),
       L("lbl", ExplainLabel), L("bul", ""),
       L("lbl", ChecklistLabel), L("bul", "") >>

\* The text run_coach_agent parses when parsing the agent's reply raised.
FallbackText ==
    << L("hdr", "MENTAL_STATE_CHECK"),
       L("lbl", ObsLabel), L("bul", "parse failed"),
       L("lbl", InfLabel), L("bul", "parse failed"),
       L("lbl", TipLabel), L("bul", "take a breath"),
       Blank,
       L("hdr", "POSITION_SNAPSHOT"),
       L("lbl", EvalLabel), L("bul", "unknown"),
       L("lbl", WhyLabel), L("bul", "unknown"),
       L("lbl", ThreatsLabel), L("bul", "unknown"),
       L("lbl", PlansWhiteLabel), L("bul", "unknown"),
       L("lbl", PlansBlackLabel), L("bul", "unknown"),
       Blank,
       L("hdr", "MOVE_QUALITY"),
       L("lbl", LabelLabel), L("bul", "Good"),
       L("lbl", ReasonLabel), L("bul", "unknown"),
       Blank,
       L("hdr", "COACHING"),
       L("lbl", ActionableLabel), L("bul", "1) See raw output"),
       L("lbl", ShortPVLabel), L("bul", ""),
       Blank,
       L("hdr", "BOT_MOVE"),
       L("lbl", ExplainLabel), L("bul", ""),
       L("lbl", ChecklistLabel), L("bul", "") >>

\* ------------------------------------------------ agent.py: run_coach_agent
\* What agent.invoke can do: raise (None), or reply with a message whose
\* content is a str or is not one (a list of content blocks).
WellFormedText ==
    << L("hdr", "MENTAL_STATE_CHECK"),
       L("lbl", ObsLabel), L("bul", "fast reply"),
       L("lbl", InfLabel), L("bul", "possibly rushed"),
       L("lbl", TipLabel), L("bul", "count to ten"),
       L("hdr", "MOVE_QUALITY"),
       L("lbl", LabelLabel), L("bul", "Blunder") >>
GarbageText == << L("txt", "I cannot help with that.") >>
AgentReplies ==
    { [str |-> TRUE, text |-> WellFormedText],
      [str |-> FALSE, text |-> GarbageText] }
AgentOutcomes == {None} \cup {Some(r) : r \in AgentReplies}

\* Every text run_coach_agent hands to parse_agent_report, and its report.
ParsedTexts == {NoKeyText, FallbackText} \cup {r.text : r \in {x \in AgentReplies : x.str}}
Report == [text \in ParsedTexts |-> parse_agent_report(text)]

\* run_coach_agent: the text it parses.  Without a key it is the canned text;
\* a reply that is a str is parsed as it is; parsing any other reply raises,
\* and the except branch parses the fallback text.
TextParsed(key, outcome) ==
    IF ~key THEN NoKeyText
    ELSE IF outcome[1].str THEN outcome[1].text
    ELSE FallbackText
\* (A variant that keeps the text that was parsed.)
RawText_Parsed(key, outcome) ==
    IF ~key THEN NoKeyText ELSE IF outcome[1].str THEN outcome[1].text ELSE FallbackText
\* run_coach_agent: the raw_text of the report (out.raw_text = text).
RawText(key, outcome) == IF ~key THEN NoKeyText ELSE outcome[1].text

\* run_coach_agent: None when the exception of agent.invoke propagates.
\* (A variant that skips the test of the key.)
run_coach_agent_NoKeyCheck(key, outcome) ==
    IF outcome = None THEN None
    ELSE Some([Report[TextParsed(TRUE, outcome)] EXCEPT !.raw_text = RawText(TRUE, outcome)])
run_coach_agent(key, outcome) ==
    IF key /\ outcome = None THEN None
    ELSE Some([Report[TextParsed(key, outcome)] EXCEPT !.raw_text = RawText(key, outcome)])

\* --------------------------------------------------------------- session
\* Session.white_ms / black_ms: 5 * 60 * 1000, never changed.
ClockMs == 300000
\* _empty_captured()
_empty_captured == [white |-> <<>>, black |-> <<>>]

\* Session(): the dataclass defaults.
Session ==
    [board |-> NewBoard,
     player_side |-> "white",
     bot_difficulty |-> "medium",
     coach_verbosity |-> 2,
     move_list |-> <<>>,
     captured_pieces |-> _empty_captured,
     white_ms |-> ClockMs,
     black_ms |-> ClockMs,
     think_times_ms |-> <<>>,
     blunder_streak |-> 0,
     undo_attempts |-> 0,
     rapid_after_blunder |-> FALSE,
     self_report |-> None,
     last_agent_output |-> None]

\* Session.reset(side, difficulty, verbosity)
\* (A variant that leaves last_agent_output alone.)
reset_KeepsReport(s, side, difficulty, verbosity) ==
    [Session EXCEPT !.player_side = side, !.bot_difficulty = difficulty,
                    !.coach_verbosity = verbosity,
                    !.last_agent_output = s.last_agent_output]
reset(s, side, difficulty, verbosity) ==
    [s EXCEPT !.board = NewBoard,
              !.player_side = side,
              !.bot_difficulty = difficulty,
              !.coach_verbosity = verbosity,
              !.move_list = <<>>,
              !.captured_pieces = _empty_captured,
              !.white_ms = ClockMs,
              !.black_ms = ClockMs,
              !.think_times_ms = <<>>,
              !.blunder_streak = 0,
              !.undo_attempts = 0,
              !.rapid_after_blunder = FALSE,
              !.self_report = None,
              !.last_agent_output = None]

\* Session.to_state()
to_state(s) ==
    [fen |-> Fen(s.board),
     side_to_move |-> Turn(s.board),
     move_list |-> s.move_list,
     captured_pieces |-> s.captured_pieces,
     clocks |-> [white_ms |-> s.white_ms, black_ms |-> s.black_ms],
     signals |-> [think_times_ms |-> s.think_times_ms,
                  blunder_streak |-> s.blunder_streak,
                  undo_attempts |-> s.undo_attempts,
                  rapid_after_blunder |-> s.rapid_after_blunder,
                  self_report |-> s.self_report],
     game_over |-> IsGameOver(s.board),
     result |-> IF IsGameOver(s.board) THEN Some(Result(s.board)) ELSE None]

\* ------------------------------------------------------------- responses
\* A response: the HTTP status, the detail of an error, and the body of a
\* StateResponse / MoveResponse.
Response(status, detail, state, agent_output, bot_move) ==
    [status |-> status, detail |-> detail, state |-> state,
     agent_output |-> agent_output, bot_move |-> bot_move]
\* No response yet.
NoResp == Response(0, "", None, None, None)
HTTPException(status, detail) == Response(status, detail, None, None, None)
\* An exception no handler catches: the framework answers 500.
Unhandled == HTTPException(500, "Internal Server Error")
\* A request body the pydantic request model refuses: the framework answers 422.
Unprocessable == HTTPException(422, "validation error")
\* StateResponse(state=SESSION.to_state(), agent_output=SESSION.last_agent_output)
StateResponse(s) == Response(200, "", Some(to_state(s)), s.last_agent_output, None)

\* What a handler leaves behind: the session, the response, and which
\* collaborator calls it made and how they ended.
NoCollab == [bot |-> "none", agent |-> "none"]
Outcome(s, response, collab) == [session |-> s, resp |-> response, collab |-> collab]

\* ------------------------------------------------------ main.py: new_game
\* models.py, NewGameRequest: coach_verbosity has ge=1, le=3.
NewGameRequestOk(r) == r.coach_verbosity >= 1 /\ r.coach_verbosity <= 3

\* new_game, the checks of side, difficulty and verbosity: "" when all pass.
\* (A variant without the test of side.)
ValidationDetail_SideUnchecked(side, difficulty, verbosity) ==
    IF difficulty \notin {"easy", "medium", "hard"}
    THEN "bot_difficulty must be easy|medium|hard"
    ELSE IF verbosity < 1 \/ verbosity > 3 THEN "coach_verbosity must be 1..3"
    ELSE ""
ValidationDetail(side, difficulty, verbosity) ==
    IF side \notin {"white", "black"} THEN "side must be 'white' or 'black'"
    ELSE IF difficulty \notin {"easy", "medium", "hard"}
    THEN "bot_difficulty must be easy|medium|hard"
    ELSE IF verbosity < 1 \/ verbosity > 3 THEN "coach_verbosity must be 1..3"
    ELSE ""

\* new_game reaches ENGINE.get_bot_move when the request passes the checks,
\* the user plays black and the engine is there.
NewGameCallsEngine(engine, r) ==
    /\ NewGameRequestOk(r)
    /\ ValidationDetail(Lower(r.side), Lower(r.bot_difficulty), r.coach_verbosity) = ""
    /\ Lower(r.side) = "black"
    /\ engine # None

\* (A variant that leaves the first move to the user whatever the side.)
new_game_NoFirstMove(s, engine, r, eng) ==
    LET side == Lower(r.side)
        difficulty == Lower(r.bot_difficulty)
        verbosity == r.coach_verbosity
        detail == ValidationDetail(side, difficulty, verbosity)
        s1 == reset(s, side, difficulty, verbosity)
    IN  IF ~NewGameRequestOk(r) THEN Outcome(s, Unprocessable, NoCollab)
        ELSE IF detail # "" THEN Outcome(s, HTTPException(400, detail), NoCollab)
        ELSE Outcome(s1, StateResponse(s1), NoCollab)

\* new_game(req): `eng` is what ENGINE.get_bot_move does if it is called:
\* it raises (None) or returns a move.
new_game(s, engine, r, eng) ==
    LET side == Lower(r.side)
        difficulty == Lower(r.bot_difficulty)
        verbosity == r.coach_verbosity
        detail == ValidationDetail(side, difficulty, verbosity)
        s1 == reset(s, side, difficulty, verbosity)
        s2 == [s1 EXCEPT !.board = Push(s1.board, eng[1]),
                         !.move_list = Append(s1.move_list, Uci(eng[1]))]
    IN  IF ~NewGameRequestOk(r) THEN Outcome(s, Unprocessable, NoCollab)
        ELSE IF detail # "" THEN Outcome(s, HTTPException(400, detail), NoCollab)
        ELSE IF side # "black" THEN Outcome(s1, StateResponse(s1), NoCollab)
        ELSE IF engine = None
             THEN Outcome(s1, HTTPException(500, "Engine not initialized"), NoCollab)
        ELSE IF eng = None
             THEN Outcome(s1, Unhandled, [NoCollab EXCEPT !.bot = "raised"])
        ELSE Outcome(s2, StateResponse(s2), [NoCollab EXCEPT !.bot = "moved"])

\* ----------------------------------------------------- main.py: get_state
\* (A variant that answers without the cached report.)
get_state_NoReport(s) ==
    Outcome(s, Response(200, "", Some(to_state(s)), None, None), NoCollab)
get_state(s) == Outcome(s, StateResponse(s), NoCollab)

\* ---------------------------------------------------------- main.py: undo
\* undo, "Undo one half-move (last move)"
\* (A variant that pops the board only.)
UndoPly_BoardOnly(s) == [s EXCEPT !.board = Pop(s.board)]
UndoPly(s) == [s EXCEPT !.board = Pop(s.board), !.move_list = Pop(s.move_list)]

\* (A variant that takes a whole turn back.)
undo_TwoPlies(s) ==
    IF Len(s.move_list) = 0 THEN Outcome(s, StateResponse(s), NoCollab)
    ELSE Outcome([UndoPly(UndoPly(s)) EXCEPT !.undo_attempts = s.undo_attempts + 1],
                 StateResponse([UndoPly(UndoPly(s)) EXCEPT !.undo_attempts = s.undo_attempts + 1]),
                 NoCollab)
\* (A variant that counts the attempt on an empty history too.)
undo_CountsAlways(s) ==
    IF Len(s.move_list) = 0
    THEN Outcome([s EXCEPT !.undo_attempts = @ + 1],
                 StateResponse([s EXCEPT !.undo_attempts = @ + 1]), NoCollab)
    ELSE Outcome([UndoPly(s) EXCEPT !.undo_attempts = s.undo_attempts + 1],
                 StateResponse([UndoPly(s) EXCEPT !.undo_attempts = s.undo_attempts + 1]),
                 NoCollab)
\* undo(req); board.pop() raises IndexError on an empty move stack.
undo(s) ==
    LET s1 == UndoPly(s)
        s2 == [s1 EXCEPT !.undo_attempts = s.undo_attempts + 1]
    IN  IF Len(s.move_list) = 0 THEN Outcome(s, StateResponse(s), NoCollab)
        ELSE IF s.board = <<>> THEN Outcome(s, Unhandled, NoCollab)
        ELSE Outcome(s2, StateResponse(s2), NoCollab)

\* ----------------------------------------------------- main.py: make_move
\* make_move, "Apply self-report (optional)"
ApplySelfReport(s, r) ==
    IF r.self_report # None THEN [s EXCEPT !.self_report = r.self_report] ELSE s

\* make_move, "Validate and play user's move": the move, or the detail of
\* the HTTPException(400).
\* (A variant without the legality test.)
Validate_SyntaxOnly(b, uci) ==
    IF FromUci(uci) = None THEN [ok |-> FALSE, detail |-> "Invalid UCI move"]
    ELSE [ok |-> TRUE, move |-> FromUci(uci)[1]]
Validate(b, uci) ==
    LET parsed == ParseUci(b, uci)
    IN  IF parsed = None THEN [ok |-> FALSE, detail |-> "Invalid UCI move"]
        ELSE IF parsed[1] \notin LegalMoves(b)
             THEN [ok |-> FALSE, detail |-> "Illegal move"]
        ELSE [ok |-> TRUE, move |-> parsed[1]]

\* make_move, "Update think time" and the tracker call, whose label is None.
UpdateSignals(s, r) ==
    LET sig == update_mental_signals_after_move(None, r.think_time_ms,
                                                s.blunder_streak > 0, s.blunder_streak)
    IN  [s EXCEPT !.think_times_ms = IF r.think_time_ms # None
                                     THEN Append(@, r.think_time_ms[1]) ELSE @,
                  !.blunder_streak = sig[1],
                  !.rapid_after_blunder = sig[2]]

\* make_move, "Push user move"
PushUserMove(s, move, uci) ==
    [s EXCEPT !.board = Push(@, move), !.move_list = Append(@, uci)]

\* (A variant that pushes the bot's move and does not record it.)
PushBotMove_BoardOnly(s, bot_move) == [s EXCEPT !.board = Push(@, bot_move)]
\* make_move, the bot's reply: board.push(bot_move), move_list.append(uci)
PushBotMove(s, bot_move) ==
    [s EXCEPT !.board = Push(@, bot_move), !.move_list = Append(@, Uci(bot_move))]

\* What make_move has done so far: the session, the response when it has
\* ended (NoResp while it goes on), the collaborator calls, the bot's move.
Progress(s, response, collab, bot_move) ==
    [session |-> s, resp |-> response, collab |-> collab, bot_move |-> bot_move]
Ended(p) == p.resp # NoResp

\* make_move, from the engine check to "Push user move".
AcceptMove(s, engine, r) ==
    LET s0 == ApplySelfReport(s, r)
        uci == Strip(r.uci_move)
        v == Validate(s0.board, uci)
    IN  IF engine = None
        THEN Progress(s, HTTPException(500, "Engine not initialized"), NoCollab, None)
        ELSE IF ~v.ok THEN Progress(s0, HTTPException(400, v.detail), NoCollab, None)
        ELSE Progress(PushUserMove(UpdateSignals(s0, r), v.move, uci), NoResp, NoCollab, None)

\* (A variant that asks the engine for a reply in every position.)
BotReply_Always(s, eng) ==
    IF eng = None THEN Progress(s, Unhandled, [NoCollab EXCEPT !.bot = "raised"], None)
    ELSE Progress(PushBotMove(s, eng[1]), NoResp, [NoCollab EXCEPT !.bot = "moved"],
              Some(Uci(eng[1])))

\* make_move, "Bot reply (if game not over)": `eng` is what get_bot_move
\* does if it is called: it raises (None) or returns a move.
BotReply(s, eng) ==
    IF IsGameOver(s.board) THEN Progress(s, NoResp, NoCollab, None)
    ELSE IF eng = None THEN Progress(s, Unhandled, [NoCollab EXCEPT !.bot = "raised"], None)
    ELSE Progress(PushBotMove(s, eng[1]), NoResp, [NoCollab EXCEPT !.bot = "moved"],
              Some(Uci(eng[1])))

\* make_move, from run_coach_agent to the MoveResponse: `agent_out` is what
\* run_coach_agent returned, None when it raised.
Coach(s, key, agent_out, collab, bot_move) ==
    IF agent_out = None
    THEN Progress(s, Unhandled, [collab EXCEPT !.agent = "raised"], bot_move)
    ELSE Progress([s EXCEPT !.last_agent_output = agent_out],
              Response(200, "", Some(to_state(s)), agent_out, bot_move),
              [collab EXCEPT !.agent = IF key THEN "replied" ELSE "none"], bot_move)

\* ------------------------------------------- agent.py: the tool context
\* _set_tool_ctx(board, move_list, ..., signals): the context holds the
\* arguments.  make_move passes SESSION.board, SESSION.move_list and, in
\* signals, SESSION.think_times_ms themselves: `bound` says that the context
\* holds the very objects of the session, and then the three fields below
\* are not read.  The other entries are values.
_set_tool_ctx(s) ==
    Some([bound |-> TRUE,
          board |-> s.board,
          move_list |-> s.move_list,
          think_times_ms |-> s.think_times_ms,
          player_side |-> s.player_side,
          bot_difficulty |-> s.bot_difficulty,
          coach_verbosity |-> s.coach_verbosity,
          blunder_streak |-> s.blunder_streak,
          undo_attempts |-> s.undo_attempts,
          rapid_after_blunder |-> s.rapid_after_blunder,
          self_report |-> s.self_report])

\* get_current_game_state(): what the tool reads through the context.
get_current_game_state(ctx, s) ==
    [board |-> IF ctx[1].bound THEN s.board ELSE ctx[1].board,
     move_list |-> IF ctx[1].bound THEN s.move_list ELSE ctx[1].move_list,
     player_side |-> ctx[1].player_side,
     bot_difficulty |-> ctx[1].bot_difficulty,
     coach_verbosity |-> ctx[1].coach_verbosity,
     think_times_ms |-> IF ctx[1].bound THEN s.think_times_ms ELSE ctx[1].think_times_ms,
     blunder_streak |-> ctx[1].blunder_streak,
     undo_attempts |-> ctx[1].undo_attempts,
     rapid_after_blunder |-> ctx[1].rapid_after_blunder,
     self_report |-> ctx[1].self_report]

\* Session.reset binds a new board and new lists to the session s: a
\* context that held its objects keeps them as they are at that moment.
Rebound(ctx, s) ==
    IF ctx = None THEN ctx
    ELSE IF ~ctx[1].bound THEN ctx
    ELSE Some([ctx[1] EXCEPT !.bound = FALSE,
                             !.board = s.board,
                             !.move_list = s.move_list,
                             !.think_times_ms = s.think_times_ms])

\* Whether new_game(r) gets as far as SESSION.reset.
Resets(r) ==
    /\ NewGameRequestOk(r)
    /\ ValidationDetail(Lower(r.side), Lower(r.bot_difficulty), r.coach_verbosity) = ""

\* ------------------------------------------------- main.py: WSManager
\* The observers: WebSocket connections to /ws/game.
Observers == {"o1", "o2"}

\* A WebSocket: not connected yet ("new"), accepted and alive ("open"), or
\* gone on the peer's side ("closed"); and the messages it was sent.
NoSockets == [o \in Observers |-> [state |-> "new", received |-> 0]]

\* WSManager(): no connection.
WSManager == [connections |-> <<>>]

\* WSManager.connect, after ws.accept()
connect(m, o) == [m EXCEPT !.connections = Append(@, o)]

\* WSManager.disconnect: list.remove takes the first occurrence out.
RECURSIVE Remove(_, _)
Remove(q, o) ==
    IF q = <<>> THEN <<>>
    ELSE IF q[1] = o THEN Tail(q)
    ELSE <<q[1]>> \o Remove(Tail(q), o)
disconnect(m, o) == [m EXCEPT !.connections = Remove(@, o)]

\* ws.send_json: the message arrives at an open socket; on any other the
\* call raises.
SendFails(socks, o) == socks[o].state # "open"
send_json(socks, o) == [socks EXCEPT ![o].received = @ + 1]

\* WSManager.broadcast, the loop over self.connections from index i on:
\* the sockets after the sends, and the dead list.
RECURSIVE SendAll(_, _, _, _)
SendAll(q, i, socks, dead) ==
    IF i > Len(q) THEN [sockets |-> socks, dead |-> dead]
    ELSE IF SendFails(socks, q[i]) THEN SendAll(q, i + 1, socks, Append(dead, q[i]))
    ELSE SendAll(q, i + 1, send_json(socks, q[i]), dead)
RECURSIVE DisconnectAll(_, _)
DisconnectAll(m, dead) ==
    IF dead = <<>> THEN m ELSE DisconnectAll(disconnect(m, dead[1]), Tail(dead))
\* WSManager.broadcast(payload)
broadcast(m, socks) ==
    LET sent == SendAll(m.connections, 1, socks, <<>>)
    IN  [ws_manager |-> DisconnectAll(m, sent.dead), sockets |-> sent.sockets]

\* asyncio.get_event_loop() in make_move.  The handler is a plain `def`
\* endpoint: it runs on a thread of the pool, where no event loop runs and
\* none is set, and there the call raises RuntimeError (None).
get_event_loop == None

\* make_move, "WebSocket broadcast": the task is created only if a loop was
\* found and is running; any exception is swallowed.
Notify(m, socks, loop) ==
    IF loop = None THEN [ws_manager |-> m, sockets |-> socks]
    ELSE IF loop[1].is_running THEN broadcast(m, socks)
    ELSE [ws_manager |-> m, sockets |-> socks]

\* ------------------------------------------------------------ request data
Sides == {"White", "black", "green"}
Difficulties == {"Easy", "insane"}
Verbosities == {0, 1, 3, 4}
UciStrings == {"s1", " s1 ", "s2", "s2alt", "0000", "zz"}
ThinkTimes == {None, Some(1200)}
SelfReports == {None, Some("calm")}

NewGameRequests ==
    [op : {"new_game"}, side : Sides, bot_difficulty : Difficulties,
     coach_verbosity : Verbosities]
MoveRequests ==
    [op : {"move"}, uci_move : UciStrings, think_time_ms : ThinkTimes,
     self_report : SelfReports]

\* ------------------------------------------------------------------ state
\* The handlers are plain `def` endpoints: the framework runs each call on a
\* thread of its pool.
Threads == {1, 2}

VARIABLES
    SESSION,          \* session.py: the single in-memory session
    ENGINE,           \* chess_engine.ENGINE
    OPENAI_API_KEY,   \* whether the environment holds a non-empty key
    req,              \* the request being answered, one call at a time
    resp,             \* its response
    collab,           \* the collaborator calls the handler made
    calls,            \* per pool thread: the call it runs and where it is
    applied,          \* a function applied on its own: arguments and result
    _TOOL_CTX,        \* agent.py: the context the agent's tools read
    ws_manager,       \* main.py: ws_manager, the subscribed observers
    sockets           \* the observers' WebSockets

vars == <<SESSION, ENGINE, OPENAI_API_KEY, req, resp, collab, calls, applied,
          _TOOL_CTX, ws_manager, sockets>>

NoReq == [op |-> "none"]
\* No function is applied on its own.
NoApplied == [fn |-> "none"]
\* A pool thread with no call.
NoCall == [pc |-> "idle", r |-> NoReq, resp |-> NoResp, collab |-> NoCollab,
           bot_move |-> None, requested |-> None]

Init ==
    /\ SESSION = Session
    /\ ENGINE = None
    /\ OPENAI_API_KEY \in BOOLEAN
    /\ req = NoReq
    /\ resp = NoResp
    /\ collab = NoCollab
    /\ calls = [t \in Threads |-> NoCall]
    /\ applied = NoApplied
    /\ _TOOL_CTX = None
    /\ ws_manager = WSManager
    /\ sockets = NoSockets

\* ---------------------------------------------- one call at a time (Spec)
\* A handler starts when no call is in flight.
Idle == req = NoReq

\* A handler runs to its end and leaves its response.  Only the tools read
\* _TOOL_CTX, and only during agent.invoke, after the _set_tool_ctx of the
\* same call: where a handler is one step its content is never read, and it
\* is left out.
Answer(r, out) ==
    /\ req' = r
    /\ SESSION' = out.session
    /\ resp' = out.resp
    /\ collab' = out.collab
    /\ UNCHANGED <<ENGINE, OPENAI_API_KEY, calls, applied, _TOOL_CTX>>
Handle(r, out) == Answer(r, out) /\ UNCHANGED <<ws_manager, sockets>>

\* make_move ends with a MoveResponse, after its "WebSocket broadcast".
HandleMove(r, out) ==
    /\ Answer(r, out)
    /\ \E n \in {IF out.resp.status = 200 THEN Notify(ws_manager, sockets, get_event_loop)
                  ELSE [ws_manager |-> ws_manager, sockets |-> sockets]} :
           ws_manager' = n.ws_manager /\ sockets' = n.sockets

\* The response goes to the client: the call is over.
respond ==
    /\ req # NoReq
    /\ req' = NoReq
    /\ resp' = NoResp
    /\ collab' = NoCollab
    /\ UNCHANGED <<SESSION, ENGINE, OPENAI_API_KEY, calls, applied, _TOOL_CTX, ws_manager, sockets>>

\* main.py, startup()
startup ==
    /\ Idle
    /\ ENGINE = None
    /\ ENGINE' = Some("StockfishEngine")
    /\ UNCHANGED <<SESSION, OPENAI_API_KEY, req, resp, collab, calls, applied, _TOOL_CTX, ws_manager, sockets>>

\* get_bot_move is an input only of a call that reaches it, and the engine
\* answers with a move that is legal in the position it is given.
EngineInputs(reached, b) ==
    IF reached /\ ~IsGameOver(b) THEN {None} \cup {Some(m) : m \in LegalMoves(b)}
    ELSE {None}
\* agent.invoke is an input only of a call that reaches it.
AgentInputs(reached, key) == IF reached /\ key THEN AgentOutcomes ELSE {None}

NewGame == Idle /\ \E r \in NewGameRequests :
    \E eng \in EngineInputs(NewGameCallsEngine(ENGINE, r), NewBoard) :
    \E out \in {new_game(SESSION, ENGINE, r, eng)} : Handle(r, out)

GetState == Idle /\ \E out \in {get_state(SESSION)} : Handle([op |-> "get_state"], out)

Undo ==
    /\ Idle
    /\ SESSION.undo_attempts < MaxUndo \/ SESSION.move_list = <<>>
    /\ \E out \in {undo(SESSION)} : Handle([op |-> "undo"], out)

\* make_move(req), the whole handler.
MakeMove == Idle /\ \E r \in MoveRequests :
    /\ r.think_time_ms # None => Len(SESSION.think_times_ms) < MaxThink
    /\ \E a \in {AcceptMove(SESSION, ENGINE, r)} :
       IF Ended(a) THEN Handle(r, a)
       ELSE \E eng \in EngineInputs(TRUE, a.session.board) :
            \E b \in {BotReply(a.session, eng)} :
            IF Ended(b) THEN Handle(r, b)
            ELSE \E agent \in AgentInputs(TRUE, OPENAI_API_KEY) :
                 \E agent_out \in {run_coach_agent(OPENAI_API_KEY, agent)} :
                 \E out \in {Coach(b.session, OPENAI_API_KEY, agent_out, b.collab,
                                   b.bot_move)} : HandleMove(r, out)

Next == startup \/ NewGame \/ GetState \/ Undo \/ MakeMove \/ respond

Spec == Init /\ [][Next]_vars

\* ------------------------------------------- the observers (FanOutSpec)
\* The service after startup(), with no observer yet.
FanOutInit ==
    /\ SESSION = Session
    /\ ENGINE = Some("StockfishEngine")
    /\ OPENAI_API_KEY \in BOOLEAN
    /\ req = NoReq
    /\ resp = NoResp
    /\ collab = NoCollab
    /\ calls = [t \in Threads |-> NoCall]
    /\ applied = NoApplied
    /\ _TOOL_CTX = None
    /\ ws_manager = WSManager
    /\ sockets = NoSockets

\* Whether o is in ws_manager.connections.
Subscribed(m, o) == \E i \in 1..Len(m.connections) : m.connections[i] = o

\* ws_game(ws) up to its receive loop: the manager accepts and appends the
\* socket, and the initial snapshot is sent to it.
WsConnect(o) ==
    /\ sockets[o].state = "new"
    /\ ws_manager' = connect(ws_manager, o)
    /\ sockets' = send_json([sockets EXCEPT ![o].state = "open"], o)
    /\ UNCHANGED <<SESSION, ENGINE, OPENAI_API_KEY, req, resp, collab, calls, applied, _TOOL_CTX>>

\* The peer of an open socket goes away.
WsClose(o) ==
    /\ sockets[o].state = "open"
    /\ sockets' = [sockets EXCEPT ![o].state = "closed"]
    /\ UNCHANGED <<SESSION, ENGINE, OPENAI_API_KEY, req, resp, collab, calls, applied, _TOOL_CTX, ws_manager>>

\* ws_game(ws), the except clauses: receive_text raises on a socket whose
\* peer is gone, and the handler disconnects it.
WsDisconnect(o) ==
    /\ sockets[o].state = "closed"
    /\ Subscribed(ws_manager, o)
    /\ ws_manager' = disconnect(ws_manager, o)
    /\ UNCHANGED <<SESSION, ENGINE, OPENAI_API_KEY, req, resp, collab, calls, applied, _TOOL_CTX, sockets>>

FanOutNext ==
    \/ \E o \in Observers : WsConnect(o)
    \/ \E o \in Observers : WsClose(o)
    \/ \E o \in Observers : WsDisconnect(o)
    \/ MakeMove
    \/ respond

FanOutSpec == FanOutInit /\ [][FanOutNext]_vars

\* ------------------------------------- calls on pool threads (ConcSpec)
\* The service after startup(): the engine is there.
ConcInit ==
    /\ SESSION = Session
    /\ ENGINE = Some("StockfishEngine")
    /\ OPENAI_API_KEY \in BOOLEAN
    /\ req = NoReq
    /\ resp = NoResp
    /\ collab = NoCollab
    /\ calls = [t \in Threads |-> NoCall]
    /\ applied = NoApplied
    /\ _TOOL_CTX = None
    /\ ws_manager = WSManager
    /\ sockets = NoSockets

ConcUciStrings == {"s1", "s2", "zz"}
ConcMoveRequests ==
    [op : {"move"}, uci_move : ConcUciStrings, think_time_ms : {None},
     self_report : {None}]

\* Thread t has run its call r up to pc and left p behind.  Nothing in
\* main.py keeps another thread out of SESSION meanwhile.
Advance(t, pc, r, p) ==
    /\ calls' = [calls EXCEPT ![t] = [pc |-> pc, r |-> r, resp |-> p.resp,
                                      collab |-> p.collab, bot_move |-> p.bot_move,
                                      requested |-> calls[t].requested]]
    /\ SESSION' = p.session
    /\ UNCHANGED <<ENGINE, OPENAI_API_KEY, req, resp, collab, applied, ws_manager, sockets>>
\* (_TOOL_CTX is followed where the tools read it, in AgentSpec.)
Step(t, pc, r, p) == Advance(t, pc, r, p) /\ UNCHANGED _TOOL_CTX

PcAfter(p, pc) == IF Ended(p) THEN "done" ELSE pc

\* make_move on a thread, up to "Push user move"
MoveAccept ==
    \E t \in Threads :
        /\ calls[t].pc = "idle"
        /\ \E r \in ConcMoveRequests :
           \E a \in {AcceptMove(SESSION, ENGINE, r)} : Step(t, PcAfter(a, "bot"), r, a)

\* make_move on a thread, "Bot reply (if game not over)"
MoveBot ==
    \E t \in Threads :
        /\ calls[t].pc = "bot"
        /\ \E eng \in EngineInputs(TRUE, SESSION.board) :
           \E b \in {BotReply(SESSION, eng)} :
               Step(t, PcAfter(b, "coach"), calls[t].r, b)

\* make_move on a thread, from run_coach_agent to the MoveResponse
MoveCoach ==
    \E t \in Threads :
        /\ calls[t].pc = "coach"
        /\ \E agent \in AgentInputs(TRUE, OPENAI_API_KEY) :
           \E agent_out \in {run_coach_agent(OPENAI_API_KEY, agent)} :
           \E out \in {Coach(SESSION, OPENAI_API_KEY, agent_out, calls[t].collab,
                             calls[t].bot_move)} :
               Step(t, "done", calls[t].r, out)

\* get_state on a thread
StateRead ==
    \E t \in Threads :
        /\ calls[t].pc = "idle"
        /\ \E out \in {get_state(SESSION)} :
               Step(t, "done", [op |-> "get_state"],
                    Progress(out.session, out.resp, out.collab, None))

\* The response of a thread's call goes to its client.
Return ==
    \E t \in Threads :
        /\ calls[t].pc = "done"
        /\ calls' = [calls EXCEPT ![t] = NoCall]
        /\ UNCHANGED <<SESSION, ENGINE, OPENAI_API_KEY, req, resp, collab, applied, _TOOL_CTX, ws_manager, sockets>>

ConcNext == MoveAccept \/ MoveBot \/ MoveCoach \/ StateRead \/ Return

ConcSpec == ConcInit /\ [][ConcNext]_vars

\* ------------------------------------ the agent's tools (AgentSpec)
\* The service after startup(), with an API key: every report is the agent's.
AgentInit ==
    /\ SESSION = Session
    /\ ENGINE = Some("StockfishEngine")
    /\ OPENAI_API_KEY = TRUE
    /\ req = NoReq
    /\ resp = NoResp
    /\ collab = NoCollab
    /\ calls = [t \in Threads |-> NoCall]
    /\ applied = NoApplied
    /\ _TOOL_CTX = None
    /\ ws_manager = WSManager
    /\ sockets = NoSockets

\* The thread whose agent call is followed; the calls of the other threads
\* run as whole handlers between its steps.
Observed == CHOOSE t \in Threads : TRUE

\* make_move on the thread, up to "Push user move"
AcceptStep ==
    /\ calls[Observed].pc = "idle"
    /\ \E r \in ConcMoveRequests :
       \E a \in {AcceptMove(SESSION, ENGINE, r)} :
           Step(Observed, PcAfter(a, "bot"), r, a)

\* make_move on the thread, "Bot reply (if game not over)"
BotStep ==
    /\ calls[Observed].pc = "bot"
    /\ \E eng \in EngineInputs(TRUE, SESSION.board) :
       \E b \in {BotReply(SESSION, eng)} :
           Step(Observed, PcAfter(b, "coach"), calls[Observed].r, b)

\* The agent call of the thread is in flight.
InFlight == calls[Observed].pc \in {"agent", "tools"}

\* make_move on the thread, run_coach_agent up to agent.invoke: the context
\* is set from the arguments, and `requested` keeps what the tools would
\* read at this moment.
CoachCall ==
    /\ calls[Observed].pc = "coach"
    /\ OPENAI_API_KEY
    /\ _TOOL_CTX' = _set_tool_ctx(SESSION)
    /\ calls' = [calls EXCEPT ![Observed].pc = "agent",
                              ![Observed].requested = Some(get_current_game_state(_TOOL_CTX', SESSION))]
    /\ UNCHANGED <<SESSION, ENGINE, OPENAI_API_KEY, req, resp, collab, applied, ws_manager, sockets>>

\* During agent.invoke the agent calls the tool get_current_game_state,
\* which reads the context as it is then.
ToolRead ==
    /\ calls[Observed].pc = "agent"
    /\ calls' = [calls EXCEPT ![Observed].pc = "tools"]
    /\ UNCHANGED <<SESSION, ENGINE, OPENAI_API_KEY, req, resp, collab, applied, _TOOL_CTX, ws_manager, sockets>>

\* The agent's replies that are a str.
AgentReturns == {Some(r) : r \in {x \in AgentReplies : x.str}}

\* make_move on the thread, from the end of agent.invoke to its return
CoachReturn ==
    /\ InFlight
    /\ \E agent \in AgentReturns :
       \E agent_out \in {run_coach_agent(OPENAI_API_KEY, agent)} :
       \E out \in {Coach(SESSION, OPENAI_API_KEY, agent_out, calls[Observed].collab,
                         calls[Observed].bot_move)} :
           SESSION' = out.session
    /\ calls' = [calls EXCEPT ![Observed] = NoCall]
    /\ UNCHANGED <<ENGINE, OPENAI_API_KEY, req, resp, collab, applied, _TOOL_CTX, ws_manager, sockets>>

\* undo, the whole handler, on another thread.
UndoStep ==
    /\ InFlight
    /\ SESSION.undo_attempts < MaxUndo
    /\ \E out \in {undo(SESSION)} : SESSION' = out.session
    /\ UNCHANGED <<ENGINE, OPENAI_API_KEY, req, resp, collab, calls, applied, _TOOL_CTX, ws_manager, sockets>>

AgentNewGameRequests ==
    [op : {"new_game"}, side : {"White", "black"}, bot_difficulty : {"Easy"},
     coach_verbosity : {1}]

\* new_game, the whole handler, on another thread: Session.reset binds a new
\* board and new lists, and the context keeps the old ones.
NewGameStep ==
    /\ InFlight
    /\ \E r \in AgentNewGameRequests :
       \E eng \in EngineInputs(NewGameCallsEngine(ENGINE, r), NewBoard) :
       \E out \in {new_game(SESSION, ENGINE, r, eng)} :
           /\ SESSION' = out.session
           /\ _TOOL_CTX' = IF Resets(r) THEN Rebound(_TOOL_CTX, SESSION) ELSE _TOOL_CTX
    /\ UNCHANGED <<ENGINE, OPENAI_API_KEY, req, resp, collab, calls, applied, ws_manager, sockets>>

\* make_move, the whole handler, on another thread: a call that gets to
\* run_coach_agent sets the context anew.
MoveStep ==
    /\ InFlight
    /\ \E r \in ConcMoveRequests :
       \E a \in {AcceptMove(SESSION, ENGINE, r)} :
       IF Ended(a) THEN SESSION' = a.session /\ UNCHANGED _TOOL_CTX
       ELSE \E eng \in EngineInputs(TRUE, a.session.board) :
            \E b \in {BotReply(a.session, eng)} :
            IF Ended(b) THEN SESSION' = b.session /\ UNCHANGED _TOOL_CTX
            ELSE \E agent \in AgentReturns :
                 \E agent_out \in {run_coach_agent(OPENAI_API_KEY, agent)} :
                 \E out \in {Coach(b.session, OPENAI_API_KEY, agent_out, b.collab,
                                   b.bot_move)} :
                     /\ SESSION' = out.session
                     /\ _TOOL_CTX' = _set_tool_ctx(b.session)
    /\ UNCHANGED <<ENGINE, OPENAI_API_KEY, req, resp, collab, calls, applied, ws_manager, sockets>>

AgentNext ==
    \/ AcceptStep
    \/ BotStep
    \/ CoachCall
    \/ ToolRead
    \/ CoachReturn
    \/ UndoStep
    \/ NewGameStep
    \/ MoveStep
    \/ Return

AgentSpec == AgentInit /\ [][AgentNext]_vars

\* ------------------------------------------- functions applied on their own
\* The service is at rest while a function is applied on its own.
Service == <<SESSION, ENGINE, OPENAI_API_KEY, req, resp, collab, calls,
            _TOOL_CTX, ws_manager, sockets>>
AtRest ==
    /\ SESSION = Session
    /\ ENGINE = None
    /\ OPENAI_API_KEY = FALSE
    /\ req = NoReq
    /\ resp = NoResp
    /\ collab = NoCollab
    /\ calls = [t \in Threads |-> NoCall]
    /\ _TOOL_CTX = None
    /\ ws_manager = WSManager
    /\ sockets = NoSockets

\* The arguments of a call, and the call with its result.
Args(a) == [fn |-> "args", args |-> a]
Applied(fn, a, result) == [fn |-> fn, args |-> a, result |-> result]

\* Centipawn evaluations: absent, or within MaxEval of zero, so that swings
\* run from -2 * MaxEval to 2 * MaxEval, across every threshold.
MaxEval == 105
Evals == {None} \cup {Some(x) : x \in (0 - MaxEval)..MaxEval}

ClassifyInit == AtRest /\ applied \in {Args(<<b, a>>) : b \in Evals, a \in Evals}

ClassifySwing ==
    /\ applied.fn = "args"
    /\ applied' = Applied("classify_move_quality_from_swing", applied.args,
                          classify_move_quality_from_swing(applied.args[1], applied.args[2]))
    /\ UNCHANGED Service

ClassifyLastMove ==
    /\ applied.fn = "args"
    /\ applied' = Applied("classify_last_move", applied.args,
                          classify_last_move(applied.args[1], applied.args[2]))
    /\ UNCHANGED Service

ClassifyNext == ClassifySwing \/ ClassifyLastMove
ClassifySpec == ClassifyInit /\ [][ClassifyNext]_vars

\* Tracker inputs: labels of the enumeration, padded ones, and others; think
\* times on both sides of the threshold; streaks up to MaxStreak.
MaxStreak == 3
TrackerLabels ==
    {None} \cup {Some(q) : q \in {"Blunder", "Mistake", "Good", "Best", "Inaccuracy",
                                  " Blunder ", " Good ", "blunder", "Excellent", "", " "}}
TrackerThinkTimes ==
    {None} \cup {Some(t) : t \in {0, RapidThresholdMs - 1, RapidThresholdMs,
                                  RapidThresholdMs + 1, 2 * RapidThresholdMs}}

TrackerInit ==
    /\ AtRest
    /\ applied \in {Args(<<q, t, b, n>>) : q \in TrackerLabels, t \in TrackerThinkTimes,
                                          b \in BOOLEAN, n \in 0..MaxStreak}

Track ==
    /\ applied.fn = "args"
    /\ applied' = Applied("update_mental_signals_after_move", applied.args,
                          update_mental_signals_after_move(applied.args[1], applied.args[2],
                                                           applied.args[3], applied.args[4]))
    /\ UNCHANGED Service

TrackerNext == Track
TrackerSpec == TrackerInit /\ [][TrackerNext]_vars

\* Report texts.  Arbitrary ones: every sequence of at most MaxLines lines
\* over headers, the label's sub-label, label tokens inside and outside the
\* enumeration, plain and bulleted, and blank lines.
MaxLines == 4
Lines ==
    { L("hdr", "MOVE_QUALITY"), L("hdr", "COACHING"), L("lbl", LabelLabel),
      L("txt", "Blunder"), L("bul", "Mistake"), L("txt", "Excellent"), Blank }
RECURSIVE SeqsUpTo(_, _)
SeqsUpTo(S, n) ==
    IF n = 0 THEN {<<>>}
    ELSE LET shorter == SeqsUpTo(S, n - 1)
         IN  shorter \cup {Append(q, x) : q \in shorter, x \in S}
ArbitraryTexts == SeqsUpTo(Lines, MaxLines)

\* Truncated ones: every prefix of the canned report.
TruncatedTexts == {SubSeq(NoKeyText, 1, n) : n \in 0..Len(NoKeyText)}

\* Coaching sections with up to MaxItems authored lines, after a quality
\* section or none, before a principal variation or none.
MaxItems == 4
Items ==
    { L("num", "develop"), L("num", "castle"), L("bul", "breathe"), L("bul", ""), Blank }
CoachingHeads ==
    { <<>>, << L("hdr", "MOVE_QUALITY"), L("lbl", LabelLabel), L("txt", "Mistake") >> }
CoachingTails ==
    { <<>>, << L("lbl", ShortPVLabel), L("bul", "e4 e5"), L("num", "Nf3") >> }
CoachingTexts ==
    { h \o << L("hdr", "COACHING"), L("lbl", ActionableLabel) >> \o items \o t :
        h \in CoachingHeads, items \in SeqsUpTo(Items, MaxItems), t \in CoachingTails }

\* Sections with one list sub-field of up to MaxItems bullets, alone or
\* followed by the sub-label that closes its span: <<section, sub-label,
\* closing sub-label>>.
ListSubfields ==
    { <<"MENTAL_STATE_CHECK", ObsLabel, InfLabel>>,
      <<"POSITION_SNAPSHOT", WhyLabel, ThreatsLabel>>,
      <<"POSITION_SNAPSHOT", ThreatsLabel, PlansWhiteLabel>>,
      <<"POSITION_SNAPSHOT", PlansWhiteLabel, PlansBlackLabel>>,
      <<"POSITION_SNAPSHOT", PlansBlackLabel, ReasonLabel>> }
SubfieldTextsOf(f) ==
    { << L("hdr", f[1]), L("lbl", f[2]) >> \o bullets \o t :
        bullets \in SeqsUpTo({L("bul", "first"), L("bul", "second")}, MaxItems),
        t \in {<<>>, << L("lbl", f[3]), L("bul", "next") >>} }
SubfieldTexts == UNION {SubfieldTextsOf(f) : f \in ListSubfields}

ReportTexts == ArbitraryTexts \cup TruncatedTexts \cup CoachingTexts \cup SubfieldTexts

\* run_coach_agent's inputs: agent.invoke is reached only with a key.
CoachInputs == {<<key, outcome>> : key \in BOOLEAN, outcome \in AgentOutcomes}

ReportInit ==
    /\ AtRest
    /\ applied \in {Args(<<t>>) : t \in ReportTexts}
                   \cup {Args(a) : a \in {c \in CoachInputs : c[2] \in AgentInputs(TRUE, c[1])}}

ParseReport ==
    /\ applied.fn = "args"
    /\ Len(applied.args) = 1
    /\ applied' = Applied("parse_agent_report", applied.args,
                          parse_agent_report(applied.args[1]))
    /\ UNCHANGED Service

RunCoachAgent ==
    /\ applied.fn = "args"
    /\ Len(applied.args) = 2
    /\ applied' = Applied("run_coach_agent", applied.args,
                          run_coach_agent(applied.args[1], applied.args[2]))
    /\ UNCHANGED Service

ReportNext == ParseReport \/ RunCoachAgent
ReportSpec == ReportInit /\ [][ReportNext]_vars

\* ----------------------------------------------------------- properties
\* A move string that does not parse, or that names a move outside the legal
\* moves of position b.
NotPlayable(b, uci) ==
    IF FromUci(uci) = None THEN TRUE ELSE FromUci(uci)[1] \notin LegalMoves(b)

\* The step is a whole make_move / new_game call.
MoveCall == Idle /\ req'.op = "move"
NewGameCall == Idle /\ req'.op = "new_game"

C2_RejectedMoveMutatesNothing ==
    [][(MoveCall /\ resp'.status = 400) => SESSION' = SESSION]_vars

\* Replaying the move list ml from position b: the position reached, None
\* when a move of the list does not parse in the position it is replayed on.
RECURSIVE Replay(_, _)
Replay(b, ml) ==
    IF ml = <<>> THEN Some(b)
    ELSE IF ParseUci(b, ml[1]) = None THEN None
    ELSE Replay(Push(b, ParseUci(b, ml[1])[1]), Tail(ml))

\* C3: in every reachable session state, replaying the move list from the
\* initial position gives the current position: the same moves, in the same
\* order, as the board's move stack.
C3_ReplayReproducesPosition ==
    /\ Len(SESSION.move_list) = Len(SESSION.board)
    /\ Replay(NewBoard, SESSION.move_list) = Some(SESSION.board)

\* C3, witness: moves have been played and taken back, and two plies remain.
C3_Witness ==
    /\ SESSION.undo_attempts > 0
    /\ Len(SESSION.move_list) >= 2
    /\ req.op = "undo"

\* A SubmitMove that has pushed the human's move and not yet cached its report.
MidTurn == {"bot", "coach"}

\* C4: two concurrent SubmitMove calls do not interleave: while one call is
\* between accepting the human's move and caching its report, no other call
\* is.
C4_MutualExclusion ==
    \A t \in Threads : \A u \in Threads :
        (t # u /\ calls[t].r.op = "move" /\ calls[t].pc \in MidTurn)
        => ~(calls[u].r.op = "move" /\ calls[u].pc \in MidTurn)

\* C5: no GetState answers with a move list that holds the human move of a
\* turn whose report is not cached yet.
C5_NoPartialTurnObserved ==
    \A t \in Threads : \A u \in Threads :
        (/\ calls[t].pc = "done"
         /\ calls[t].r.op = "get_state"
         /\ calls[u].pc \in MidTurn)
        => calls[t].resp.state[1].move_list # SESSION.move_list

\* C6: when the agent call of a SubmitMove raises, the call is still answered
\* 200 with a report, and that report is cached.
C6_AgentFailureDegrades ==
    collab.agent = "raised"
    => /\ resp.status = 200
       /\ resp.agent_output # None
       /\ SESSION.last_agent_output = resp.agent_output

\* The human move of request r and the bot's reply, as the move list gets them.
PliesOf(r, response) ==
    <<Strip(r.uci_move)>> \o
    (IF response.bot_move = None THEN <<>> ELSE <<response.bot_move[1]>>)

\* C7: without a credential, a SubmitMove of a legal move (the engine being
\* there and answering) is answered 200, appends the human move and the bot's
\* reply, and returns and caches a report whose inference and micro-reset tip
\* are the two fixed sentences and whose label is one of the five.
C7_NoKeyCannedReport ==
    [][(/\ MoveCall
        /\ ~OPENAI_API_KEY
        /\ ENGINE # None
        /\ ~NotPlayable(SESSION.board, Strip(req'.uci_move))
        /\ collab'.bot # "raised")
       => /\ resp'.status = 200
          /\ SESSION'.move_list = SESSION.move_list \o PliesOf(req', resp')
          /\ Len(SESSION'.board) = Len(SESSION'.move_list)
          /\ resp'.bot_move = None <=> IsGameOver(SESSION'.board) /\ collab'.bot = "none"
          /\ resp'.agent_output # None
          /\ SESSION'.last_agent_output = resp'.agent_output
          /\ resp'.agent_output[1].mental.inference = "Coaching disabled until key is set"
          /\ resp'.agent_output[1].mental.micro_reset_tip
                 = "Set OPENAI_API_KEY and restart backend"
          /\ resp'.agent_output[1].coach.move_quality \in AllowedLabels]_vars

\* C7, witness: without a credential a move has been answered 200 with the
\* bot's reply, after think-times were recorded.
C7_Witness ==
    /\ ~OPENAI_API_KEY
    /\ req.op = "move"
    /\ resp.status = 200
    /\ resp.bot_move # None
    /\ Len(SESSION.think_times_ms) > 0
    /\ SESSION.last_agent_output # None

\* C8: a call answered "Engine not initialized" leaves the whole session
\* (position, move list, signals, configuration, cached report) as it was.
C8_EngineMissingMutatesNothing ==
    [][((MoveCall \/ NewGameCall) /\ resp'.detail = "Engine not initialized")
       => SESSION' = SESSION]_vars

\* A NewGame answered with a validation failure, the session as it was.
Refused == resp'.status \in {400, 422} /\ SESSION' = SESSION

\* C9, as the specification has it: a NewGame whose side is not one of white,
\* black, whose difficulty is not one of easy, medium, hard, or whose
\* verbosity is not one of 1, 2, 3 is refused and changes nothing.
C9_OutOfDomainRefused ==
    [][(/\ NewGameCall
        /\ \/ req'.side \notin {"white", "black"}
           \/ req'.bot_difficulty \notin {"easy", "medium", "hard"}
           \/ req'.coach_verbosity \notin 1..3)
       => Refused]_vars

\* C9, amended: a NewGame whose side, in lower case, is not one of white,
\* black, whose difficulty, in lower case, is not one of easy, medium, hard,
\* or whose verbosity is not one of 1, 2, 3 is refused and changes nothing.
C9_OutOfDomainRefusedIgnoringCase ==
    [][(/\ NewGameCall
        /\ \/ Lower(req'.side) \notin {"white", "black"}
           \/ Lower(req'.bot_difficulty) \notin {"easy", "medium", "hard"}
           \/ req'.coach_verbosity \notin 1..3)
       => Refused]_vars

\* C9, witness: a NewGame with an unknown side has been refused while a game
\* with a cached report and recorded signals was running.
C9_Witness ==
    /\ req.op = "new_game"
    /\ req.side = "green"
    /\ resp.status = 400
    /\ SESSION.move_list # <<>>
    /\ SESSION.last_agent_output # None
    /\ SESSION.undo_attempts > 0

\* A NewGame request with valid arguments.
ValidNewGame(r) ==
    /\ Lower(r.side) \in {"white", "black"}
    /\ Lower(r.bot_difficulty) \in {"easy", "medium", "hard"}
    /\ r.coach_verbosity \in 1..3

\* The signals of a snapshot are empty or zero.
NoSignals(state) ==
    state.signals = [think_times_ms |-> <<>>, blunder_streak |-> 0,
                     undo_attempts |-> 0, rapid_after_blunder |-> FALSE,
                     self_report |-> None]

\* C10: a NewGame with valid arguments, from any session state, for side
\* white is answered 200 with the initial position, an empty move list, white
\* to move, the game not over and every signal empty or zero, and no report
\* is cached or returned; for side black, when it is answered 200, the same
\* holds but for the bot's first move.
C10_NewGameResets ==
    [][(NewGameCall /\ ValidNewGame(req'))
       => /\ Lower(req'.side) = "white" => resp'.status = 200
          /\ resp'.status = 200
             => /\ resp'.state[1] = to_state(SESSION')
                /\ NoSignals(resp'.state[1])
                /\ resp'.state[1].game_over = FALSE
                /\ resp'.agent_output = None
                /\ SESSION'.last_agent_output = None
                /\ SESSION'.player_side = Lower(req'.side)
                /\ IF Lower(req'.side) = "white"
                   THEN /\ resp'.state[1].fen = Fen(NewBoard)
                        /\ resp'.state[1].move_list = <<>>
                        /\ resp'.state[1].side_to_move = "white"
                   ELSE /\ Len(resp'.state[1].move_list) = 1
                        /\ resp'.state[1].side_to_move = "black"]_vars

\* C10, witness: a NewGame for side white has been answered 200.
C10_Witness ==
    /\ req.op = "new_game"
    /\ Lower(req.side) = "white"
    /\ resp.status = 200
    /\ SESSION.move_list = <<>>
    /\ OPENAI_API_KEY

\* C11: a SubmitMove of a legal move after which the game is not over (the
\* engine answering, the agent call not raising) is answered 200, appends the
\* human move and then exactly one bot move to the move list and to the
\* board, returns that bot move, and returns a report whose label is one of
\* the five; the report returned is the one cached.
C11_LegalMovePlaysTurn ==
    [][(/\ MoveCall
        /\ ENGINE # None
        /\ ~NotPlayable(SESSION.board, Strip(req'.uci_move))
        /\ ~IsGameOver(Push(SESSION.board, FromUci(Strip(req'.uci_move))[1]))
        /\ collab'.bot # "raised"
        /\ collab'.agent # "raised")
       => /\ resp'.status = 200
          /\ resp'.bot_move # None
          /\ SESSION'.move_list
                 = SESSION.move_list \o <<Strip(req'.uci_move), resp'.bot_move[1]>>
          /\ SESSION'.board
                 = SESSION.board \o <<FromUci(Strip(req'.uci_move))[1],
                                      FromUci(resp'.bot_move[1])[1]>>
          /\ resp'.state[1].move_list = SESSION'.move_list
          /\ resp'.agent_output # None
          /\ resp'.agent_output[1].coach.move_quality \in AllowedLabels
          /\ SESSION'.last_agent_output = resp'.agent_output]_vars

\* C11, witness: with a credential, a move has been answered 200 with the
\* bot's reply and the report of the agent's reply, labelled Blunder.
C11_Witness ==
    /\ OPENAI_API_KEY
    /\ req.op = "move"
    /\ resp.status = 200
    /\ resp.bot_move # None
    /\ collab.agent = "replied"
    /\ resp.agent_output[1].coach.move_quality = "Blunder"
    /\ Len(SESSION.move_list) >= 2

\* The step is a whole undo / get_state call.
UndoCall == Idle /\ req'.op = "undo"
GetStateCall == Idle /\ req'.op = "get_state"

\* C12: an Undo on a non-empty history removes the last ply, and only it,
\* from the board and from the move list, adds one to the undo attempts, and
\* changes nothing else (cached report, streak, rapid flag, think-times,
\* self-report); it is answered with the snapshot after the removal.
C12_UndoRemovesOnePly ==
    [][(UndoCall /\ SESSION.move_list # <<>>)
       => /\ SESSION' = [SESSION EXCEPT
                 !.board = SubSeq(SESSION.board, 1, Len(SESSION.board) - 1),
                 !.move_list = SubSeq(SESSION.move_list, 1, Len(SESSION.move_list) - 1),
                 !.undo_attempts = SESSION.undo_attempts + 1]
          /\ resp'.status = 200
          /\ resp'.state = Some(to_state(SESSION'))
          /\ resp'.agent_output = SESSION.last_agent_output]_vars

\* C12, witness: an Undo has taken a ply back in a game with a cached report
\* and recorded think-times, and a ply remains.
C12_Witness ==
    /\ req.op = "undo"
    /\ SESSION.undo_attempts = 1
    /\ Len(SESSION.move_list) = 1
    /\ SESSION.last_agent_output # None
    /\ SESSION.think_times_ms # <<>>
    /\ SESSION.self_report # None

\* C13: an Undo on an empty history changes nothing (board, move list, every
\* signal, the undo attempts included, cached report) and is answered with
\* the current snapshot.
C13_UndoOnEmptyHistory ==
    [][(UndoCall /\ SESSION.move_list = <<>>)
       => /\ SESSION' = SESSION
          /\ resp'.status = 200
          /\ resp'.state = Some(to_state(SESSION))
          /\ resp'.agent_output = SESSION.last_agent_output]_vars

\* C13, witness: an Undo has been answered on an empty history after earlier
\* undos emptied it, with a report still cached.
C13_Witness ==
    /\ req.op = "undo"
    /\ SESSION.move_list = <<>>
    /\ SESSION.undo_attempts = MaxUndo
    /\ SESSION.last_agent_output # None
    /\ resp.status = 200
    /\ resp.state[1].signals.undo_attempts = MaxUndo

\* C20: a GetState changes no session field and is answered with the current
\* snapshot and the cached report; a report gets cached only by a SubmitMove
\* answered 200 and is absent after a NewGame answered 200; and every call
\* answered 200 returns the snapshot and the report a GetState after it
\* returns.
C20_GetStateReadsOnly ==
    [][/\ GetStateCall
          => /\ SESSION' = SESSION
             /\ resp'.status = 200
             /\ resp'.state = Some(to_state(SESSION))
             /\ resp'.agent_output = SESSION.last_agent_output
             /\ resp'.bot_move = None
       /\ (SESSION'.last_agent_output # SESSION.last_agent_output
           /\ SESSION'.last_agent_output # None)
          => req'.op = "move" /\ resp'.status = 200
       /\ (NewGameCall /\ resp'.status = 200) => SESSION'.last_agent_output = None
       /\ resp'.status = 200
          => /\ resp'.state = Some(to_state(SESSION'))
             /\ resp'.agent_output = SESSION'.last_agent_output]_vars

\* C20, witness: a GetState has been answered with a cached report in a game
\* with plies played and taken back.
C20_Witness ==
    /\ req.op = "get_state"
    /\ resp.status = 200
    /\ resp.agent_output # None
    /\ SESSION.move_list # <<>>
    /\ SESSION.undo_attempts > 0

\* C15: the classifier returns Good with no swing when an evaluation is
\* absent; otherwise the swing it returns is after - before and the label is
\* Good for swing >= -30, Inaccuracy for -90..-31, Mistake for -200..-91,
\* Blunder for swing <= -201; classify_last_move returns that label.
C15_ClassifierBands ==
    applied.fn \in {"classify_move_quality_from_swing", "classify_last_move"}
    => LET before == applied.args[1]
           after == applied.args[2]
           label == IF applied.fn = "classify_last_move" THEN applied.result
                    ELSE applied.result.label
       IN  /\ label \in {"Good", "Inaccuracy", "Mistake", "Blunder"}
           /\ (before = None \/ after = None)
              => /\ label = "Good"
                 /\ applied.fn = "classify_move_quality_from_swing"
                    => applied.result.swing_cp = None
           /\ (before # None /\ after # None)
              => /\ applied.fn = "classify_move_quality_from_swing"
                    => applied.result.swing_cp = Some(after[1] - before[1])
                 /\ label = "Good" <=> after[1] - before[1] >= -30
                 /\ label = "Inaccuracy"
                    <=> (-90 <= after[1] - before[1] /\ after[1] - before[1] <= -31)
                 /\ label = "Mistake"
                    <=> (-200 <= after[1] - before[1] /\ after[1] - before[1] <= -91)
                 /\ label = "Blunder" <=> after[1] - before[1] <= -201

\* C15, witness: a swing of exactly -201 has been classified a Blunder.
C15_Witness ==
    /\ applied.fn = "classify_move_quality_from_swing"
    /\ applied.args[1] # None
    /\ applied.result.swing_cp = Some(-201)
    /\ applied.result.label = "Blunder"

\* C16 as worded: the streak is unchanged for an absent label, input + 1 for a
\* label in {Mistake, Blunder}, 0 for a label in {Good, Best, Inaccuracy},
\* and unchanged for any other label.
C16_StreakByLabel ==
    applied.fn = "update_mental_signals_after_move"
    => LET q == applied.args[1]
           n == applied.args[4]
           streak == applied.result[1]
       IN  /\ q = None => streak = n
           /\ (q # None /\ q[1] \in {"Mistake", "Blunder"}) => streak = n + 1
           /\ (q # None /\ q[1] \in {"Good", "Best", "Inaccuracy"}) => streak = 0
           /\ (q # None /\ q[1] \notin {"Mistake", "Blunder", "Good", "Best", "Inaccuracy"})
              => streak = n

\* C16, amended: the label is read with its surrounding whitespace removed:
\* absent -> unchanged; {Mistake, Blunder} -> input + 1; {Good, Best,
\* Inaccuracy} -> 0; any other label -> unchanged, whatever the think time
\* and the previous-was-blunder flag.
C16_StreakByStrippedLabel ==
    applied.fn = "update_mental_signals_after_move"
    => LET q == applied.args[1]
           n == applied.args[4]
           streak == applied.result[1]
       IN  /\ q = None => streak = n
           /\ (q # None /\ Strip(q[1]) \in {"Mistake", "Blunder"}) => streak = n + 1
           /\ (q # None /\ Strip(q[1]) \in {"Good", "Best", "Inaccuracy"}) => streak = 0
           /\ (q # None
               /\ Strip(q[1]) \notin {"Mistake", "Blunder", "Good", "Best", "Inaccuracy"})
              => streak = n

\* C16, witness: a label padded with blanks has raised a streak, after a
\* blunder and a fast move.
C16_Witness ==
    /\ applied.fn = "update_mental_signals_after_move"
    /\ applied.args[1] = Some(" Blunder ")
    /\ applied.args[3]
    /\ applied.args[4] = 2
    /\ applied.result = <<3, TRUE>>

\* C17: rapid-after-blunder is true exactly when the previous move was a
\* blunder and the think time is present and at most 1500 ms, whatever the
\* label and the streak.
C17_RapidAfterBlunder ==
    applied.fn = "update_mental_signals_after_move"
    => (applied.result[2]
        <=> /\ applied.args[3]
            /\ applied.args[2] # None
            /\ applied.args[2][1] <= 1500)

\* C17, witness: a think time of exactly 1500 ms after a blunder is rapid,
\* with an absent label.
C17_Witness ==
    /\ applied.fn = "update_mental_signals_after_move"
    /\ applied.args[1] = None
    /\ applied.args[2] = Some(1500)
    /\ applied.args[3]
    /\ applied.result[2]

\* The lines of a text that satisfy a test, and whether one does.
HasLine(text, l) == \E i \in 1..Len(text) : text[i] = l

\* C14: whatever the text, the parser returns a report with every field
\* filled, whose label is one of the five; the label is Good when the text
\* has no quality section, no "Label:" line, or no line that reads as one of
\* the five labels.
C14_ParserTotal ==
    applied.fn = "parse_agent_report"
    => LET text == applied.args[1]
           out == applied.result
       IN  /\ DOMAIN out = {"coach", "mental", "position", "raw_text"}
           /\ out.coach.move_quality \in {"Best", "Good", "Inaccuracy", "Mistake", "Blunder"}
           /\ Len(out.coach.bullets) <= 3
           /\ out.mental.inference # ""
           /\ out.mental.micro_reset_tip # ""
           /\ out.position.eval # ""
           /\ (\/ ~HasLine(text, L("hdr", "MOVE_QUALITY"))
               \/ ~HasLine(text, L("lbl", "Label:"))
               \/ \A i \in 1..Len(text) :
                      text[i].v \notin {"Best", "Good", "Inaccuracy", "Mistake", "Blunder"})
              => out.coach.move_quality = "Good"

\* C14, witness: a text whose label token is outside the enumeration, with
\* its sections out of order, has been parsed to Good.
C14_Witness ==
    /\ applied.fn = "parse_agent_report"
    /\ applied.args[1] = << L("hdr", "COACHING"), L("hdr", "MOVE_QUALITY"),
                            L("lbl", "Label:"), L("txt", "Excellent") >>
    /\ applied.result.coach.move_quality = "Good"

\* The authored lines of a coaching block: the numbered ones if there is
\* one, else the bulleted ones; and the first three of a list.
Numbered(block) ==
    LET Test(l) == l.k = "num" /\ l.v # "" IN [i \in 1..Len(SelectSeq(block, Test)) |-> SelectSeq(block, Test)[i].v]
Bulleted(block) ==
    LET Test(l) == l.k = "bul" /\ l.v # "" IN [i \in 1..Len(SelectSeq(block, Test)) |-> SelectSeq(block, Test)[i].v]
Authored(block) == IF Numbered(block) # <<>> THEN Numbered(block) ELSE Bulleted(block)
FirstThree(q) == IF Len(q) <= 3 THEN q ELSE <<q[1], q[2], q[3]>>
\* The index of the first line after `from` that closes an Actionable block.
BlockEnd(text, from) ==
    LET S == {e \in (from + 1)..Len(text) :
                 text[e].k = "hdr" \/ text[e] = L("lbl", "Short PV (4-8 ply max):")}
    IN  IF S = {} THEN Len(text) + 1 ELSE CHOOSE e \in S : \A f \in S : e <= f

\* C18: a parsed report has at most 3 bullets; it has none when the text has
\* no coaching section; and when a coaching section opens with "Actionable:"
\* and an authored line, the bullets are the first three authored lines of
\* that block, in order (the numbered lines if it has one, else the bulleted).
C18_BulletsCapped ==
    applied.fn = "parse_agent_report"
    => LET text == applied.args[1]
           bullets == applied.result.coach.bullets
       IN  /\ Len(bullets) <= 3
           /\ ~HasLine(text, L("hdr", "COACHING")) => bullets = <<>>
           /\ \A i \in 1..(Len(text) - 2) :
                 (/\ text[i] = L("hdr", "COACHING")
                  /\ \A j \in 1..(i - 1) : text[j] # L("hdr", "COACHING")
                  /\ text[i + 1] = L("lbl", "Actionable:")
                  /\ text[i + 2].k \in {"num", "bul", "txt"})
                 => bullets = FirstThree(Authored(SubSeq(text, i + 2, BlockEnd(text, i + 2) - 1)))

\* C18, witness: a coaching section with four numbered lines has been parsed
\* to the first three.
C18_Witness ==
    /\ applied.fn = "parse_agent_report"
    /\ applied.args[1] = << L("hdr", "COACHING"), L("lbl", "Actionable:"),
                            L("num", "castle"), L("num", "develop"),
                            L("num", "develop"), L("num", "castle") >>
    /\ applied.result.coach.bullets = <<"castle", "develop", "develop">>

\* C19: the report keeps the original text as raw_text: the parser's input
\* when the parser is applied; the canned text when there is no key; the
\* agent's reply when it is parsed; and the agent's reply, not the fallback
\* text, when parsing it fails.
C19_RawTextVerbatim ==
    /\ applied.fn = "parse_agent_report" => applied.result.raw_text = applied.args[1]
    /\ (applied.fn = "run_coach_agent" /\ applied.result # None)
       => LET key == applied.args[1]
              reply == applied.args[2]
              out == applied.result[1]
          IN  /\ ~key => out.raw_text = NoKeyText /\ out = parse_agent_report(NoKeyText)
              /\ key => out.raw_text = reply[1].text
              /\ (key /\ reply[1].str) => out = parse_agent_report(reply[1].text)
              /\ (key /\ ~reply[1].str)
                 => /\ out.raw_text # FallbackText
                    /\ [out EXCEPT !.raw_text = FallbackText] = parse_agent_report(FallbackText)

\* C19, witness: a reply that could not be parsed has been answered with the
\* report of the fallback text, and the reply as raw_text.
C19_Witness ==
    /\ applied.fn = "run_coach_agent"
    /\ applied.args[1]
    /\ applied.args[2] = Some([str |-> FALSE, text |-> GarbageText])
    /\ applied.result[1].raw_text = GarbageText
    /\ applied.result[1].coach.bullets = <<"1) See raw output">>

\* C21: after a completed SubmitMove the blunder streak counts the most
\* recent human moves labelled Mistake or Blunder in a row: it is at least 1
\* when the report of the move says Mistake or Blunder, and 0 when it says
\* Good, Best or Inaccuracy.
C21_StreakFollowsLabels ==
    (req.op = "move" /\ resp.status = 200)
    => /\ resp.agent_output[1].coach.move_quality \in {"Mistake", "Blunder"}
          => SESSION.blunder_streak >= 1
       /\ resp.agent_output[1].coach.move_quality \in {"Good", "Best", "Inaccuracy"}
          => SESSION.blunder_streak = 0

\* The call pushes the move of its request on the board.
MoveAccepted == MoveCall /\ Len(SESSION'.move_list) > Len(SESSION.move_list)

\* C22: a SubmitMove accepts a move only when the side to move is the
\* player's side and the game is not over, also after undos.
C22_OnlyOnHumanTurn ==
    [][MoveAccepted
       => /\ Turn(SESSION.board) = SESSION.player_side
          /\ ~IsGameOver(SESSION.board)]_vars

\* C23: once the position is game-over, a SubmitMove or an Undo leaves the
\* position, the move list and the result as they are.
C23_GameOverIsTerminal ==
    [][(IsGameOver(SESSION.board) /\ (MoveCall \/ UndoCall))
       => /\ SESSION'.board = SESSION.board
          /\ SESSION'.move_list = SESSION.move_list
          /\ to_state(SESSION').game_over
          /\ to_state(SESSION').result = to_state(SESSION).result]_vars

\* C24: a SubmitMove in which the engine's reply or the report generation
\* fails leaves position, move list, think-times, self-report and cached
\* report as they were before the call.
C24_FailedTurnRolledBack ==
    [][(MoveCall /\ (collab'.bot = "raised" \/ collab'.agent = "raised"))
       => /\ SESSION'.board = SESSION.board
          /\ SESSION'.move_list = SESSION.move_list
          /\ SESSION'.think_times_ms = SESSION.think_times_ms
          /\ SESSION'.self_report = SESSION.self_report
          /\ SESSION'.last_agent_output = SESSION.last_agent_output]_vars

\* The plies of the move list that the player's side made.
HumanPlies(s) == {i \in 1..Len(s.move_list) : Turn(SubSeq(s.board, 1, i - 1)) = s.player_side}

\* C25: in every reachable session state the think-time list has one entry
\* per human move of the move list.
C25_OneThinkTimePerHumanMove ==
    Len(SESSION.think_times_ms) = Cardinality(HumanPlies(SESSION))

\* C27: a SubmitMove whose legal move ends the game (the report generation
\* not raising) is answered 200 without asking the engine: the move list
\* grows by that one move, no bot move is returned, the snapshot says
\* game_over with a result, and a report is returned and cached.
C27_TerminalMoveSkipsReply ==
    [][(/\ MoveCall
        /\ ENGINE # None
        /\ ~NotPlayable(SESSION.board, Strip(req'.uci_move))
        /\ IsGameOver(Push(SESSION.board, FromUci(Strip(req'.uci_move))[1]))
        /\ collab'.agent # "raised")
       => /\ resp'.status = 200
          /\ collab'.bot = "none"
          /\ SESSION'.move_list = Append(SESSION.move_list, Strip(req'.uci_move))
          /\ SESSION'.board = Append(SESSION.board, FromUci(Strip(req'.uci_move))[1])
          /\ resp'.bot_move = None
          /\ resp'.state[1].move_list = SESSION'.move_list
          /\ resp'.state[1].game_over
          /\ resp'.state[1].result # None
          /\ resp'.agent_output # None
          /\ SESSION'.last_agent_output = resp'.agent_output]_vars

\* C27, witness: a move that ended the game has been answered 200 with a
\* result, a report and no bot move.
C27_Witness ==
    /\ req.op = "move"
    /\ resp.status = 200
    /\ resp.bot_move = None
    /\ resp.state[1].game_over
    /\ resp.state[1].result = Some("1-0")
    /\ SESSION.last_agent_output # None
    /\ IsGameOver(SESSION.board)

\* C28: a NewGame with valid arguments for side black, the engine being
\* there and answering, is answered 200 with a move list of one move, the
\* engine's, black to move, every signal empty, no report returned or
\* cached, and a position that the move list reproduces.
C28_BlackGetsFirstReply ==
    [][(/\ NewGameCall
        /\ ValidNewGame(req')
        /\ Lower(req'.side) = "black"
        /\ ENGINE # None
        /\ collab'.bot # "raised")
       => /\ resp'.status = 200
          /\ collab'.bot = "moved"
          /\ Len(resp'.state[1].move_list) = 1
          /\ resp'.state[1].move_list = SESSION'.move_list
          /\ FromUci(SESSION'.move_list[1]) # None
          /\ FromUci(SESSION'.move_list[1])[1] \in LegalMoves(NewBoard)
          /\ SESSION'.board = <<FromUci(SESSION'.move_list[1])[1]>>
          /\ resp'.state[1].fen = Fen(SESSION'.board)
          /\ resp'.state[1].side_to_move = "black"
          /\ NoSignals(resp'.state[1])
          /\ resp'.agent_output = None
          /\ SESSION'.last_agent_output = None]_vars

\* C28, witness: a NewGame for black has been answered with the engine's
\* first move while the previous game had a cached report.
C28_Witness ==
    /\ req.op = "new_game"
    /\ req.side = "black"
    /\ resp.status = 200
    /\ resp.state[1].move_list = <<"s2">>
    /\ resp.state[1].side_to_move = "black"

\* The list the report holds for a sub-label.
ListOf(out, name) ==
    CASE name = "Observed Signals:" -> out.mental.observed_signals
      [] name = "Why:" -> out.position.why
      [] name = "Immediate Threats:" -> out.position.threats
      [] name = "Plans (White):" -> out.position.plans.white
      [] name = "Plans (Black):" -> out.position.plans.black
\* The index of the first sub-label line after the second line, or past the end.
NextLbl(text) ==
    LET S == {e \in 3..Len(text) : text[e].k = "lbl"}
    IN  IF S = {} THEN Len(text) + 1 ELSE CHOOSE e \in S : \A f \in S : e <= f

\* C29: for a text that is a section with one list sub-field of one bullet
\* or more, the report holds, for that sub-field, every bullet authored
\* between its sub-label and the next one, in order and without the marker.
C29_AllBulletsReturned ==
    (/\ applied.fn = "parse_agent_report"
     /\ Len(applied.args[1]) >= 3
     /\ applied.args[1][3].k = "bul"
     /\ applied.args[1][1].k = "hdr"
     /\ applied.args[1][1].v \in {"MENTAL_STATE_CHECK", "POSITION_SNAPSHOT"}
     /\ applied.args[1][2].k = "lbl"
     /\ applied.args[1][2].v \in {"Observed Signals:", "Why:", "Immediate Threats:",
                                  "Plans (White):", "Plans (Black):"})
    => ListOf(applied.result, applied.args[1][2].v)
           = Bulleted(SubSeq(applied.args[1], 3, NextLbl(applied.args[1]) - 1))

\* C30: a SubmitMove that completes sends its update to every subscribed
\* observer whose socket takes it, and removes from the subscribers every
\* observer whose send fails; the call is answered whatever the sends did.
C30_FanOutReachesObservers ==
    [][(MoveCall /\ resp'.status = 200)
       => \A o \in Observers :
            Subscribed(ws_manager, o)
            => IF SendFails(sockets, o) THEN ~Subscribed(ws_manager', o)
               ELSE /\ Subscribed(ws_manager', o)
                    /\ sockets'[o].received = sockets[o].received + 1]_vars

\* C26: what the agent's tools read during one report generation (position,
\* move history, signals) is what they would have read at the moment the
\* report was requested, whatever Undo, SubmitMove or NewGame runs on the
\* session while the agent call is in flight.
C26_ToolsReadTheSnapshot ==
    [][(calls[Observed].pc = "agent" /\ calls'[Observed].pc = "tools")
       => get_current_game_state(_TOOL_CTX, SESSION) = calls[Observed].requested[1]]_vars

\* C31: in every reachable session state, after any NewGame, SubmitMove and
\* Undo calls and whatever labels the reports carried, the blunder streak is
\* 0 and the rapid-after-blunder flag is false.
C31_SignalsNeverMove ==
    /\ SESSION.blunder_streak = 0
    /\ SESSION.rapid_after_blunder = FALSE

\* After an Undo, a human move that is at least the second of the move
\* list, played within the rapid threshold, has been answered with a report
\* labelled Blunder; the streak is 0 and the flag false.
C31_Witness ==
    /\ req.op = "move"
    /\ resp.status = 200
    /\ req.think_time_ms # None
    /\ req.think_time_ms[1] <= RapidThresholdMs
    /\ resp.agent_output[1].coach.move_quality = "Blunder"
    /\ Cardinality(HumanPlies(SESSION)) >= 2
    /\ SESSION.undo_attempts > 0
    /\ SESSION.blunder_streak = 0
    /\ SESSION.rapid_after_blunder = FALSE

====
